---- MODULE Spec2Model ----
(***************************************************************************)
(* A model of the tweet cache and analysis pipeline of x-analyser: the     *)
(* multi-modal script (twitter-media-gemini.py, variant "gemini") and the  *)
(* chat-completion script (x-analyser-openrouter.py, variant "openrouter").*)
(* One behaviour follows one of the two scripts; the cache directory and   *)
(* the media directory outlive the process (Restart).                      *)
(***************************************************************************)
EXTENDS Integers, Sequences, FiniteSets, TLC

VARIABLES
    variant,    \* which script runs: "gemini" | "openrouter"
    pc,         \* "select" (username prompt) | "chat" (question menu) |
                \* "another" (another user?) | "done" | "crashed"
    username,   \* self.username ("none" for None)
    tweets,     \* self.tweets
    files,      \* cache_dir / "{username}_tweets.json", per username
    media,      \* media_dir / "{tweet_id}.jpg", per tweet id: 0 absent, j the j-th attachment
    now,        \* datetime.now(), in hours
    ticks,      \* how often the clock was advanced
    step,       \* what the step just taken did (observation only)
    last        \* the most recent fetch_tweets call, if no refresh followed it
                \* and less than the freshness window has passed (observation only)

vars == <<variant, pc, username, tweets, files, media, now, ticks, step, last>>

----------------------------------------------------------------------------
(* Program constants and the bounds of the model *)

\* timedelta(hours=24): the freshness window, in hours
TTL == 24

\* the clock is advanced at most this many times
MaxTicks == 3

\* a tweet carries at most this many media attachments
MaxAttach == 2

\* the API returns at most this many tweets in one batch
MaxBatch == 2

Variants == {"gemini", "openrouter"}
Users == {"u1", "u2"}

\* the clock first advances to an hour short of the window, then by the hour
\* (k is the number of advances so far)
ClockStep(k) == IF k = 0 THEN TTL - 1 ELSE 1

\* the timeline of a user, most recent first, as the API returns it: "u1"
\* has two tweets, "u2" is a handle without an account
Timeline(u) == IF u = "u1" THEN <<2, 1>> ELSE <<>>
TweetIds(u) == {Timeline(u)[i] : i \in 1..Len(Timeline(u))}
AllTweetIds == UNION {TweetIds(u) : u \in Users}

\* the tweets that may carry media attachments
MediaTweetIds == {1}

\* what happens to the download of one attachment
DownloadOutcomes == {"ok", "fail"}

\* what happens to the write of a cache file: written, open() fails, the
\* dump fails after open() truncated the file
WriteOutcomes == {"ok", "openfail", "partial"}

\* download_media returns None
NoPath == 0

\* no file at a media path
NoMedia == 0

----------------------------------------------------------------------------
(* Timestamps and JSON documents *)

\* (changed: the hour of the day is dropped)
isoformat_date_only(t) == <<t \div 24, 0>>

\* (changed: the date is dropped)
isoformat_time_only(t) == <<0, t % 24>>

\* datetime.isoformat(): a date and an hour of the day
isoformat(t) == <<t \div 24, t % 24>>

\* datetime.fromisoformat()
fromisoformat(s) == s[1] * 24 + s[2]

\* json.dump of the tweet list: every tweet becomes the tuple of its values
json_dump_tweet(v, p) == IF v = "gemini" THEN <<p.id, p.media>> ELSE <<p.id>>

json_dump(v, ps) == [i \in 1..Len(ps) |-> json_dump_tweet(v, ps[i])]

\* json.load of the tweet list
json_load_tweet(d) ==
    IF Len(d) = 2 THEN [id |-> d[1], media |-> d[2]] ELSE [id |-> d[1]]

json_load(ds) == [i \in 1..Len(ds) |-> json_load_tweet(ds[i])]

\* the key under which each script stores the time of the fetch
TimeKey(v) == IF v = "gemini" THEN "timestamp" ELSE "cached_at"

\* cache files: none, unparseable, or a JSON object with a time key, a time
\* and (unless the key is missing) the tweets
NoFile == [kind |-> "none"]
Garbage == [kind |-> "garbage"]
JsonFile(key, t, hastweets, ds) ==
    [kind |-> "json", tskey |-> key, ts |-> isoformat(t),
     hastweets |-> hastweets, tweets |-> ds]

\* the ids of a batch or of a tweet list, in its order
Ids(b) == [i \in 1..Len(b) |-> b[i].id]

----------------------------------------------------------------------------
(* Cache store *)

Absent == [kind |-> "absent"]
Hit(ps, t) == [kind |-> "hit", tweets |-> ps, time |-> t]
Raised == [kind |-> "raise"]

\* (changed: the comparison with the window is turned around)
gemini_load_cached_tweets_stale_only(f, t) ==
    IF f.kind = "none" THEN Absent
    ELSE IF f.kind = "garbage" THEN Absent
    ELSE IF f.tskey # "timestamp" THEN Absent
    ELSE IF t - fromisoformat(f.ts) > TTL
         THEN IF f.hastweets
              THEN Hit(json_load(f.tweets), fromisoformat(f.ts))
              ELSE Absent
         ELSE Absent

\* load_cached_tweets of the multi-modal script: every failure is caught
gemini_load_cached_tweets(f, t) ==
    IF f.kind = "none" THEN Absent
    ELSE IF f.kind = "garbage" THEN Absent
    ELSE IF f.tskey # "timestamp" THEN Absent
    ELSE IF t - fromisoformat(f.ts) < TTL
         THEN IF f.hastweets
              THEN Hit(json_load(f.tweets), fromisoformat(f.ts))
              ELSE Absent
         ELSE Absent

\* load_cached_tweets of the chat-completion script: nothing is caught
openrouter_load_cached_tweets(f, t) ==
    IF f.kind = "none" THEN Absent
    ELSE IF f.kind = "garbage" THEN Raised
    ELSE IF f.tskey # "cached_at" THEN Raised
    ELSE IF t - fromisoformat(f.ts) > TTL THEN Absent
    ELSE IF f.hastweets
         THEN Hit(json_load(f.tweets), fromisoformat(f.ts))
         ELSE Raised

load_cached_tweets(v, f, t) ==
    IF v = "gemini" THEN gemini_load_cached_tweets(f, t)
    ELSE openrouter_load_cached_tweets(f, t)

\* open(cache_file, 'w') and json.dump: the file after the call
WriteFile(v, f, ps, w, t) ==
    IF w = "ok" THEN JsonFile(TimeKey(v), t, TRUE, json_dump(v, ps))
    ELSE IF w = "openfail" THEN f
    ELSE Garbage

\* save_tweets_to_cache of the multi-modal script: a failure is caught
gemini_save_tweets_to_cache(f, ps, w, t) ==
    [file |-> WriteFile("gemini", f, ps, w, t), raised |-> FALSE]

\* save_tweets_to_cache of the chat-completion script: a failure is raised
openrouter_save_tweets_to_cache(f, ps, w, t) ==
    [file |-> WriteFile("openrouter", f, ps, w, t), raised |-> w # "ok"]

\* the media paths of a tweet list, as clear_cache walks them
RECURSIVE MediaPathsOf(_)
MediaPathsOf(ps) ==
    IF ps = <<>> THEN {}
    ELSE {Head(ps).media[i] : i \in 1..Len(Head(ps).media)} \cup MediaPathsOf(Tail(ps))

\* (changed: True is returned whether or not there was a file)
clear_cache_always_true(u, st, unlink_ok) ==
    IF st.files[u].kind # "none" /\ unlink_ok
    THEN [st EXCEPT !.files[u] = NoFile,
                    !.media = [p \in DOMAIN st.media |->
                                 IF p \in MediaPathsOf(st.tweets) THEN NoMedia
                                 ELSE st.media[p]],
                    !.ret = TRUE]
    ELSE [st EXCEPT !.ret = TRUE]

\* clear_cache (multi-modal script only): st is the session and the disk,
\* unlink_ok whether the unlink of the cache file succeeds
clear_cache(u, st, unlink_ok) ==
    IF st.files[u].kind # "none"
    THEN IF unlink_ok
         THEN [st EXCEPT !.files[u] = NoFile,
                         !.media = [p \in DOMAIN st.media |->
                                      IF p \in MediaPathsOf(st.tweets) THEN NoMedia
                                      ELSE st.media[p]],
                         !.ret = TRUE]
         ELSE [st EXCEPT !.ret = FALSE]
    ELSE [st EXCEPT !.ret = FALSE]

----------------------------------------------------------------------------
(* Post fetcher *)

\* the path download_media writes: media_dir / "{tweet_id}.jpg"
MediaPath(tweet_id) == tweet_id

\* (changed: the path is returned whether or not the download succeeded)
download_media_path_always(o, j, tweet_id, dir) ==
    IF o = "ok"
    THEN [path |-> MediaPath(tweet_id),
          dir |-> [dir EXCEPT ![MediaPath(tweet_id)] = j]]
    ELSE [path |-> MediaPath(tweet_id), dir |-> dir]

\* download_media: the j-th attachment of a tweet, with the outcome o of the
\* request; the path (or NoPath) and the media directory after the call
download_media(o, j, tweet_id, dir) ==
    IF o = "ok"
    THEN [path |-> MediaPath(tweet_id),
          dir |-> [dir EXCEPT ![MediaPath(tweet_id)] = j]]
    ELSE [path |-> NoPath, dir |-> dir]

\* the loop over media_keys of one tweet (lines 209-216)
RECURSIVE DownloadAll(_, _, _, _, _)
DownloadAll(att, j, tweet_id, paths, dir) ==
    IF j > Len(att) THEN [paths |-> paths, dir |-> dir]
    ELSE LET r == download_media(att[j], j, tweet_id, dir)
         IN DownloadAll(att, j + 1, tweet_id,
                        IF r.path # NoPath THEN Append(paths, r.path) ELSE paths,
                        r.dir)

\* the loop over tweets.data of the multi-modal script (lines 197-218):
\* the first n tweets of the batch are normalised and appended
RECURSIVE BuildTweets(_, _, _, _, _)
BuildTweets(batch, i, n, acc, dir) ==
    IF i > n THEN [tweets |-> acc, dir |-> dir]
    ELSE LET d == DownloadAll(batch[i].att, 1, batch[i].id, <<>>, dir)
         IN BuildTweets(batch, i + 1, n,
                        Append(acc, [id |-> batch[i].id, media |-> d.paths]),
                        d.dir)

\* the list comprehension of the chat-completion script (lines 86-91)
NormaliseAll(batch) == [i \in 1..Len(batch) |-> [id |-> batch[i].id]]

\* what a call leaves behind: the session and the disk, the value returned,
\* the number of social-API requests issued, how it ended, whether it
\* raised to its caller and whether the snapshot was written ("no": no write
\* was tried, "ok", "failed")
Outcome(st, ret, net, err, raised, wrote) ==
    [st EXCEPT !.ret = ret, !.net = net, !.err = err,
               !.raised = raised, !.wrote = wrote]

\* fetch_tweets of the multi-modal script; r is what the API answers
gemini_fetch_tweets(u, force, st, r, t) ==
    LET s1 == [st EXCEPT !.username = u]
        c == IF force THEN Absent ELSE gemini_load_cached_tweets(s1.files[u], t)
    IN IF c.kind = "hit" /\ c.tweets # <<>>
       THEN Outcome([s1 EXCEPT !.tweets = c.tweets], TRUE, 0, "cached", FALSE, "no")
       ELSE CASE r.kind = "user_raise" ->
                   Outcome(s1, FALSE, 1, "user_raise", FALSE, "no")
              [] r.kind = "user_nodata" ->
                   Outcome(s1, FALSE, 1, "notfound", FALSE, "no")
              [] r.kind = "tl_raise" ->
                   Outcome(s1, FALSE, 2, "tl_raise", FALSE, "no")
              [] r.kind = "tl_empty" ->
                   Outcome(s1, FALSE, 2, "empty", FALSE, "no")
              [] r.kind = "batch_raise" ->
                   LET b == BuildTweets(r.batch, 1, Len(r.batch), <<>>, s1.media)
                   IN Outcome([s1 EXCEPT !.tweets = b.tweets, !.media = b.dir],
                              FALSE, 2, "loop_raise", FALSE, "no")
              [] r.kind = "batch" ->
                   LET b == BuildTweets(r.batch, 1, Len(r.batch), <<>>, s1.media)
                       w == gemini_save_tweets_to_cache(s1.files[u], b.tweets, r.write, t)
                   IN Outcome([s1 EXCEPT !.tweets = b.tweets, !.media = b.dir,
                                         !.files[u] = w.file],
                              TRUE, 2, "none", FALSE,
                              IF r.write = "ok" THEN "ok" ELSE "failed")

\* fetch_tweets of the chat-completion script
openrouter_fetch_tweets(u, st, r, t) ==
    LET c == openrouter_load_cached_tweets(st.files[u], t)
    IN IF c.kind = "raise"
       THEN Outcome(st, FALSE, 0, "load_raise", TRUE, "no")
       ELSE IF c.kind = "hit" /\ c.tweets # <<>>
       THEN Outcome([st EXCEPT !.tweets = c.tweets], TRUE, 0, "cached", FALSE, "no")
       ELSE CASE r.kind = "user_raise" ->
                   Outcome(st, FALSE, 1, "user_raise", FALSE, "no")
              [] r.kind = "user_nodata" ->
                   Outcome(st, FALSE, 1, "notfound", FALSE, "no")
              [] r.kind = "tl_raise" ->
                   Outcome(st, FALSE, 2, "tl_raise", FALSE, "no")
              [] r.kind = "tl_empty" ->
                   Outcome(st, FALSE, 2, "empty", FALSE, "no")
              [] r.kind = "batch_raise" ->
                   Outcome(st, FALSE, 2, "loop_raise", FALSE, "no")
              [] r.kind = "batch" ->
                   LET ps == NormaliseAll(r.batch)
                       w == openrouter_save_tweets_to_cache(st.files[u], ps, r.write, t)
                   IN IF w.raised
                      THEN Outcome([st EXCEPT !.tweets = ps, !.files[u] = w.file],
                                   FALSE, 2, "save_raise", FALSE, "failed")
                      ELSE Outcome([st EXCEPT !.tweets = ps, !.files[u] = w.file],
                                   TRUE, 2, "none", FALSE, "ok")

\* refresh_tweets (multi-modal script only): clear_cache, then a forced fetch
\* (changed: the fetch is not forced)
refresh_tweets_unforced(st, r, unlink_ok, t) ==
    IF st.username = "none" THEN Outcome(st, FALSE, 0, "nouser", FALSE, "no")
    ELSE LET c == clear_cache(st.username, st, unlink_ok)
             seen == [ret |-> IF c.ret THEN "true" ELSE "false",
                      existed |-> st.files[st.username].kind # "none",
                      fresh |-> gemini_load_cached_tweets(
                                    st.files[st.username], t).kind = "hit",
                      gone |-> c.files[st.username].kind = "none",
                      same |-> c.files = st.files /\ c.media = st.media]
         IN gemini_fetch_tweets(st.username, FALSE,
                                [c EXCEPT !.clear = seen], r, t)

\* (with what clear_cache was seen to do: the value it returned, whether a
\* cache file existed and held a fresh snapshot before, whether none is
\* left after, whether the disk is as it was)
refresh_tweets(st, r, unlink_ok, t) ==
    IF st.username = "none" THEN Outcome(st, FALSE, 0, "nouser", FALSE, "no")
    ELSE LET c == clear_cache(st.username, st, unlink_ok)
             seen == [ret |-> IF c.ret THEN "true" ELSE "false",
                      existed |-> st.files[st.username].kind # "none",
                      fresh |-> gemini_load_cached_tweets(
                                    st.files[st.username], t).kind = "hit",
                      gone |-> c.files[st.username].kind = "none",
                      same |-> c.files = st.files /\ c.media = st.media]
         IN gemini_fetch_tweets(st.username, TRUE,
                                [c EXCEPT !.clear = seen], r, t)

----------------------------------------------------------------------------
(* Analysis backends *)

\* the questions a user may type
Questions == {"q1", "q2"}

\* what the multi-modal model answers: a text, a response without text
\* (response.text raises), or generate_content raises
GeminiAnswers == {[kind |-> "text"], [kind |-> "notext"], [kind |-> "raise"]}

\* the bodies the chat-completion endpoint may send: JSON with two choices,
\* JSON without choices, text that is not JSON
Bodies ==
    {[json |-> TRUE, choices |-> <<"a", "b">>],
     [json |-> TRUE, choices |-> <<>>],
     [json |-> FALSE, choices |-> <<>>]}

\* what the chat-completion endpoint answers: a status and a body, or
\* requests.post raises
OpenrouterAnswers ==
    {[kind |-> "http", status |-> c, body |-> b] : c \in {200, 429}, b \in Bodies}
    \cup {[kind |-> "raise"]}

NoRequest == [sent |-> FALSE]
NoDetail == [status |-> 0, body |-> [json |-> FALSE, choices |-> <<>>]]

\* what a question leaves behind: the backend calls made, whether a request
\* was built and which, what is shown ("notice", "analysis" with its text,
\* "error" with its detail), whether the call raised, and the session and
\* the disk after it
Answered(st, calls, request, shown, text, detail, raised) ==
    [calls |-> calls, built |-> request # NoRequest, request |-> request,
     shown |-> shown, text |-> text, detail |-> detail, raised |-> raised,
     st |-> st]

\* load_image: the image at the path, or None
load_image(image_path, dir) == dir[image_path]

\* (changed: what load_image returns is appended without a look at it)
RECURSIVE LoadMedia_keeps_none(_, _, _, _)
LoadMedia_keeps_none(paths, k, images, dir) ==
    IF k > Len(paths) THEN images
    ELSE LoadMedia_keeps_none(paths, k + 1,
                              Append(images, load_image(paths[k], dir)), dir)

\* the loop over tweet['media'] (lines 251-254)
RECURSIVE LoadMedia(_, _, _, _)
LoadMedia(paths, k, images, dir) ==
    IF k > Len(paths) THEN images
    ELSE LET img == load_image(paths[k], dir)
         IN LoadMedia(paths, k + 1,
                      IF img # NoMedia THEN Append(images, img) ELSE images, dir)

\* the loop over self.tweets (lines 243-254): the prompt takes the text and
\* the metrics of every tweet, the image list the images that load
RECURSIVE BuildPrompt(_, _, _, _, _)
BuildPrompt(ps, i, posts, images, dir) ==
    IF i > Len(ps) THEN [posts |-> posts, images |-> images]
    ELSE BuildPrompt(ps, i + 1, Append(posts, ps[i].id),
                     LoadMedia(ps[i].media, 1, images, dir), dir)

\* the request of analyse_with_gemini: [prompt, *images]
gemini_request(u, ps, q, dir) ==
    LET b == BuildPrompt(ps, 1, <<>>, <<>>, dir)
    IN [sent |-> TRUE, user |-> u, question |-> q, posts |-> b.posts,
        images |-> b.images]

\* the messages of analyse_with_openrouter: json.dumps(self.tweets)
openrouter_request(u, ps, q) ==
    [sent |-> TRUE, user |-> u, question |-> q, posts |-> Ids(ps),
     images |-> <<>>]

\* (changed: no check for an empty tweet list)
analyse_with_gemini_unguarded(st, q, a) ==
    LET req == gemini_request(st.username, st.tweets, q, st.media)
    IN IF a.kind = "text"
       THEN Answered(st, 1, req, "analysis", "text", NoDetail, FALSE)
       ELSE Answered(st, 1, req, "error", "", NoDetail, FALSE)

\* (changed: the media paths that do not load are dropped from the tweets)
analyse_with_gemini_pruning(st, q, a) ==
    LET req == gemini_request(st.username, st.tweets, q, st.media)
        kept == [i \in 1..Len(st.tweets) |->
                   [st.tweets[i] EXCEPT !.media =
                       SelectSeq(st.tweets[i].media,
                                 LAMBDA p : st.media[p] # NoMedia)]]
        s2 == [st EXCEPT !.tweets = kept]
    IN IF st.tweets = <<>>
       THEN Answered(st, 0, NoRequest, "notice", "", NoDetail, FALSE)
       ELSE IF a.kind = "text"
            THEN Answered(s2, 1, req, "analysis", "text", NoDetail, FALSE)
            ELSE Answered(s2, 1, req, "error", "", NoDetail, FALSE)

\* analyse_with_gemini: q is the question, a what the model answers
analyse_with_gemini(st, q, a) ==
    IF st.tweets = <<>>
    THEN Answered(st, 0, NoRequest, "notice", "", NoDetail, FALSE)
    ELSE LET req == gemini_request(st.username, st.tweets, q, st.media)
         IN IF a.kind = "text"
            THEN Answered(st, 1, req, "analysis", "text", NoDetail, FALSE)
            ELSE Answered(st, 1, req, "error", "", NoDetail, FALSE)

\* (changed: the body is parsed before the try block)
analyse_with_openrouter_parse_outside(st, q, a) ==
    IF st.tweets = <<>>
    THEN Answered(st, 0, NoRequest, "notice", "", NoDetail, FALSE)
    ELSE LET req == openrouter_request(st.username, st.tweets, q)
         IN IF a.kind = "raise"
            THEN Answered(st, 1, req, "error", "", NoDetail, FALSE)
            ELSE IF a.status = 200
                 THEN IF a.body.json /\ a.body.choices # <<>>
                      THEN Answered(st, 1, req, "analysis", a.body.choices[1],
                                    NoDetail, FALSE)
                      ELSE Answered(st, 1, req, "none", "", NoDetail, TRUE)
                 ELSE Answered(st, 1, req, "error", "",
                               [status |-> a.status, body |-> a.body], FALSE)

\* (changed: the status is not looked at)
analyse_with_openrouter_any_status(st, q, a) ==
    IF st.tweets = <<>>
    THEN Answered(st, 0, NoRequest, "notice", "", NoDetail, FALSE)
    ELSE LET req == openrouter_request(st.username, st.tweets, q)
         IN IF a.kind = "raise"
            THEN Answered(st, 1, req, "error", "", NoDetail, FALSE)
            ELSE IF a.body.json /\ a.body.choices # <<>>
                 THEN Answered(st, 1, req, "analysis", a.body.choices[1],
                               NoDetail, FALSE)
                 ELSE Answered(st, 1, req, "error", "", NoDetail, FALSE)

\* analyse_with_openrouter: status 200 shows choices[0].message.content,
\* any other status shows the status and the body; whatever raises inside
\* the try block is shown as an error
analyse_with_openrouter(st, q, a) ==
    IF st.tweets = <<>>
    THEN Answered(st, 0, NoRequest, "notice", "", NoDetail, FALSE)
    ELSE LET req == openrouter_request(st.username, st.tweets, q)
         IN IF a.kind = "raise"
            THEN Answered(st, 1, req, "error", "", NoDetail, FALSE)
            ELSE IF a.status = 200
                 THEN IF a.body.json /\ a.body.choices # <<>>
                      THEN Answered(st, 1, req, "analysis", a.body.choices[1],
                                    NoDetail, FALSE)
                      ELSE Answered(st, 1, req, "error", "", NoDetail, FALSE)
                 ELSE Answered(st, 1, req, "error", "",
                               [status |-> a.status, body |-> a.body], FALSE)

----------------------------------------------------------------------------
(* What the social API may answer *)

SeqsUpTo(S, n) == UNION {[1..k -> S] : k \in 0..n}

Attachments(i) ==
    IF i \in MediaTweetIds THEN SeqsUpTo(DownloadOutcomes, MaxAttach) ELSE {<<>>}

ApiTweets(u) ==
    UNION {{[id |-> i, att |-> a] : a \in Attachments(i)} : i \in TweetIds(u)}

\* the most recent tweets of the user, up to n of them, most recent first
BatchesUpTo(u, n) ==
    {b \in UNION {[1..k -> ApiTweets(u)] :
                    k \in 0..(IF n < Len(Timeline(u)) THEN n ELSE Len(Timeline(u)))} :
        \A i \in 1..Len(b) : b[i].id = Timeline(u)[i]}

\* a batch: tweets.data, not empty
Batches(u) == BatchesUpTo(u, MaxBatch) \ {<<>>}

\* the tweets of a batch that were appended when the loop over it raised
\* at its last tweet
Prefixes(u) == {SubSeq(b, 1, Len(b) - 1) : b \in Batches(u)}

\* get_user raises or finds no data; for an account, get_users_tweets
\* raises, returns no data or a batch; the loop over a batch may raise,
\* after the tweets of r.batch were appended
ResponsesOf(u) ==
    {[kind |-> k] : k \in {"user_raise", "user_nodata"}}
    \cup (IF Timeline(u) = <<>> THEN {}
          ELSE {[kind |-> k] : k \in {"tl_raise", "tl_empty"}}
               \cup {[kind |-> "batch", batch |-> b, write |-> w] :
                       b \in Batches(u), w \in WriteOutcomes}
               \cup {[kind |-> "batch_raise", batch |-> b] :
                       b \in Prefixes(u)})

\* per username, once
Responses == [u \in Users |-> ResponsesOf(u)]

\* a call that is answered from the cache asks the API nothing
NoResponse == [kind |-> "unasked"]

----------------------------------------------------------------------------
(* The session *)

NoClear == [ret |-> "na", existed |-> FALSE, fresh |-> FALSE, gone |-> FALSE,
            same |-> TRUE]

\* the session and the disk, as the operations above take them
St == [username |-> username, tweets |-> tweets, files |-> files,
       media |-> media, ret |-> FALSE, net |-> 0, err |-> "none",
       raised |-> FALSE, wrote |-> "no", clear |-> NoClear]

\* the memory of a fetch_tweets call that ended as o
Called(u, o) ==
    [user |-> u, time |-> now, fetched |-> o.net > 0,
     stored |-> o.ret /\ o.wrote = "ok", posts |-> o.tweets]

NoCall == [user |-> "none", time |-> 0, fetched |-> FALSE, stored |-> FALSE,
           posts |-> <<>>]

\* how many attachments a tweet of the batch had and how many of their
\* downloads succeeded
Downloads(att) ==
    [n |-> Len(att), ok |-> Len(SelectSeq(att, LAMBDA d : d = "ok"))]

\* the observation of a fetch or refresh that was answered r and ended as
\* o: the call, its outcome, the batch the API returned with the downloads
\* of every tweet, and the fetch_tweets call for the same username that went
\* before it (prev)
Seen(op, u, o, r) ==
    [op |-> op, user |-> u, ret |-> o.ret, net |-> o.net, err |-> o.err,
     raised |-> o.raised, wrote |-> o.wrote, clear |-> o.clear,
     batch |-> IF o.err = "none" THEN Ids(r.batch) ELSE <<>>,
     atts |-> IF o.err = "none" /\ variant = "gemini"
              THEN [i \in 1..Len(r.batch) |-> Downloads(r.batch[i].att)]
              ELSE <<>>,
     prev |-> IF last.user = u /\ now - last.time < TTL THEN last ELSE NoCall]

\* the observation of a question that was answered a and ended as o
SeenAsk(ps, a, o) ==
    [op |-> "ask", empty |-> ps = <<>>, answer |-> a, calls |-> o.calls,
     built |-> o.built, request |-> o.request, shown |-> o.shown,
     text |-> o.text, detail |-> o.detail, raised |-> o.raised]

NoStep == [op |-> "none"]

\* the snapshots a run may find on disk: none, an unparseable file, one
\* written by this script, one written by the other script (the two share
\* the cache directory and the file name), one without its tweets
SamplePosts(v, u) ==
    IF v = "gemini"
    THEN IF u = "u1" THEN <<[id |-> 2, media |-> <<MediaPath(2)>>],
                            [id |-> 1, media |-> <<MediaPath(1)>>]>>
         ELSE <<[id |-> 3, media |-> <<>>]>>
    ELSE IF u = "u1" THEN <<[id |-> 1]>> ELSE <<[id |-> 3]>>

Other(v) == IF v = "gemini" THEN "openrouter" ELSE "gemini"

SampleFile(v, u) == JsonFile(TimeKey(v), 0, TRUE, json_dump(v, SamplePosts(v, u)))

InitialFiles(v, u) ==
    IF u = "u1"
    THEN {NoFile, Garbage, SampleFile(v, u), SampleFile(Other(v), u),
          JsonFile(TimeKey(v), 0, FALSE, <<>>)}
    ELSE {NoFile}

Init ==
    /\ variant \in Variants
    /\ pc = "select"
    /\ username = "none"
    /\ tweets = <<>>
    /\ files \in {f \in [Users -> UNION {InitialFiles(v, u) : v \in Variants, u \in Users}] :
                    \A u \in Users : f[u] \in InitialFiles(variant, u)}
    /\ media \in {d \in [AllTweetIds -> {NoMedia, 1}] :
                      IF files["u1"] = SampleFile("gemini", "u1")
                      THEN d[2] = 1
                      ELSE \A p \in AllTweetIds : d[p] = NoMedia}
    /\ now = 0
    /\ ticks = 0
    /\ step = NoStep
    /\ last = NoCall

\* time passes, between two operations
Tick ==
    /\ ticks < MaxTicks
    /\ step = NoStep
    /\ now' = now + ClockStep(ticks)
    /\ ticks' = ticks + 1
    /\ step' = NoStep
    /\ last' = IF now' - last.time < TTL THEN last ELSE NoCall
    /\ UNCHANGED <<variant, pc, username, tweets, files, media>>

\* what the API is asked by a fetch of u: nothing on a cache hit
Asked(u, force) ==
    LET c == IF force THEN Absent ELSE load_cached_tweets(variant, files[u], now)
    IN IF c.kind = "raise" \/ (c.kind = "hit" /\ c.tweets # <<>>)
       THEN {NoResponse} ELSE Responses[u]

\* what the API is asked by a refresh: refresh_tweets forces the fetch
AskedAgain == IF pc = "chat" /\ step = NoStep /\ username \in Users
              THEN Responses[username] ELSE {}

\* whether the unlink of the cache file succeeds, where there is one
Unlinks == IF username \in Users /\ files[username].kind # "none"
           THEN BOOLEAN ELSE {TRUE}

\* (changed: the question menu opens whatever fetch_tweets returned)
main_fetch_always_chat(u, r) ==
    /\ variant = "gemini"
    /\ pc = "select"
    /\ \E o \in {gemini_fetch_tweets(u, FALSE, St, r, now)} :
          /\ username' = o.username
          /\ tweets' = o.tweets
          /\ files' = o.files
          /\ media' = o.media
          /\ step' = Seen("fetch", u, o, r)
          /\ last' = Called(u, o)
          /\ pc' = "chat"
    /\ UNCHANGED <<variant, now, ticks>>

\* main of the multi-modal script (lines 308-315): a username is entered and
\* fetched; on success the question menu opens, otherwise the user is asked
\* whether to go on with another username
main_fetch(u, r) ==
    /\ variant = "gemini"
    /\ pc = "select"
    /\ \E o \in {gemini_fetch_tweets(u, FALSE, St, r, now)} :
          /\ username' = o.username
          /\ tweets' = o.tweets
          /\ files' = o.files
          /\ media' = o.media
          /\ step' = Seen("fetch", u, o, r)
          /\ last' = Called(u, o)
          /\ pc' = IF o.ret THEN "chat" ELSE "another"
    /\ UNCHANGED <<variant, now, ticks>>

\* start_chat of the chat-completion script (lines 152-164)
start_chat(u, r) ==
    /\ variant = "openrouter"
    /\ pc = "select"
    /\ \E o \in {openrouter_fetch_tweets(u, St, r, now)} :
          /\ username' = IF o.ret THEN u ELSE o.username
          /\ tweets' = o.tweets
          /\ files' = o.files
          /\ media' = o.media
          /\ step' = Seen("fetch", u, o, r)
          /\ last' = Called(u, o)
          /\ pc' = IF o.raised THEN "crashed" ELSE IF o.ret THEN "chat" ELSE "done"
    /\ UNCHANGED <<variant, now, ticks>>

\* interactive_session and chat_loop come back to their prompt (lines
\* 277-284, 169-170): what the last choice did is off the screen
menu ==
    /\ pc = "chat"
    /\ step # NoStep
    /\ step' = NoStep
    /\ UNCHANGED <<variant, pc, username, tweets, files, media, now, ticks, last>>

\* interactive_session, choice 2 (lines 292-296)
refresh(r, unlink_ok) ==
    /\ variant = "gemini"
    /\ pc = "chat"
    /\ step = NoStep
    /\ \E o \in {refresh_tweets(St, r, unlink_ok, now)} :
          /\ username' = o.username
          /\ tweets' = o.tweets
          /\ files' = o.files
          /\ media' = o.media
          /\ step' = Seen("refresh", username, o, r)
          /\ last' = NoCall
    /\ UNCHANGED <<variant, pc, now, ticks>>

\* interactive_session, choice 1 (lines 286-291): an exception that left
\* analyse_with_gemini would end the process in main (lines 322-323)
ask_gemini(q, a) ==
    /\ variant = "gemini"
    /\ pc = "chat"
    /\ step = NoStep
    /\ \E o \in {analyse_with_gemini(St, q, a)} :
          /\ username' = o.st.username
          /\ tweets' = o.st.tweets
          /\ files' = o.st.files
          /\ media' = o.st.media
          /\ step' = SeenAsk(tweets, a, o)
          /\ pc' = IF o.raised THEN "crashed" ELSE "chat"
    /\ UNCHANGED <<variant, now, ticks, last>>

\* chat_loop (lines 169-175)
ask_openrouter(q, a) ==
    /\ variant = "openrouter"
    /\ pc = "chat"
    /\ step = NoStep
    /\ \E o \in {analyse_with_openrouter(St, q, a)} :
          /\ username' = o.st.username
          /\ tweets' = o.st.tweets
          /\ files' = o.st.files
          /\ media' = o.st.media
          /\ step' = SeenAsk(tweets, a, o)
          /\ pc' = IF o.raised THEN "crashed" ELSE "chat"
    /\ UNCHANGED <<variant, now, ticks, last>>

\* interactive_session, choice 3 (lines 297-298); 'quit' in chat_loop ends
\* the chat-completion script (lines 172-173)
exit_session ==
    /\ pc = "chat"
    /\ step = NoStep
    /\ pc' = IF variant = "gemini" THEN "another" ELSE "done"
    /\ step' = NoStep
    /\ UNCHANGED <<variant, username, tweets, files, media, now, ticks, last>>

\* "Would you like to analyze another user?" (lines 314-315): the loop goes
\* on, or the process ends and its session with it
another_user(yes) ==
    /\ pc = "another"
    /\ pc' = IF yes THEN "select" ELSE "done"
    /\ username' = IF yes THEN username ELSE "none"
    /\ tweets' = IF yes THEN tweets ELSE <<>>
    /\ step' = NoStep
    /\ last' = IF yes THEN last ELSE NoCall
    /\ UNCHANGED <<variant, files, media, now, ticks>>

\* the chat-completion script handles one username per run: it is run
\* again, a new session over the same cache directory
Restart ==
    /\ variant = "openrouter"
    /\ pc \in {"done", "crashed"}
    /\ pc' = "select"
    /\ username' = "none"
    /\ tweets' = <<>>
    /\ step' = NoStep
    /\ UNCHANGED <<variant, files, media, now, ticks, last>>

Next ==
    \/ Tick
    \/ \E u \in Users : \E r \in Asked(u, FALSE) : main_fetch(u, r)
    \/ \E u \in Users : \E r \in Asked(u, FALSE) : start_chat(u, r)
    \/ menu
    \/ \E r \in AskedAgain : \E k \in Unlinks : refresh(r, k)
    \/ \E q \in Questions : \E a \in GeminiAnswers : ask_gemini(q, a)
    \/ \E q \in Questions : \E a \in OpenrouterAnswers : ask_openrouter(q, a)
    \/ exit_session
    \/ \E yes \in BOOLEAN : another_user(yes)
    \/ Restart

Spec == Init /\ [][Next]_vars

----------------------------------------------------------------------------
(* Properties *)

IsFetch == step.op = "fetch"
IsRefresh == step.op = "refresh"
IsAsk == step.op = "ask"

\* the step about to be observed in the next state is a fetch or a refresh
FetchStep == step = NoStep /\ step'.op \in {"fetch", "refresh"}

\* a snapshot this script wrote: its time key and its tweets are there
ValidSnapshot(f) == f.kind = "json" /\ f.tskey = TimeKey(variant) /\ f.hastweets

\* a file load_cached_tweets cannot read
Malformed(f) ==
    \/ f.kind = "garbage"
    \/ f.kind = "json" /\ (f.tskey # TimeKey(variant) \/ ~f.hastweets)

\* the media files a snapshot of the multi-modal script names
SnapshotMedia(f) ==
    IF variant = "gemini" THEN MediaPathsOf(json_load(f.tweets)) ELSE {}

\* get_user or get_users_tweets raised
NetworkErrors == {"user_raise", "tl_raise"}

\* C1, as stated: of two consecutive fetch_tweets calls for one username
\* less than 24 hours apart, whatever the cache held and whatever the API
\* answered, the first goes to the network, the second asks the API nothing
\* and leaves the tweets the first call left.
C1_TwoFetchesOneNetworkFetch ==
    (IsFetch /\ step.prev.user = step.user)
        => /\ step.prev.fetched
           /\ step.net = 0
           /\ tweets = step.prev.posts

\* C1, amended: when a fetch_tweets call went to the network, returned True
\* and wrote the snapshot, the next fetch_tweets call for that username, less
\* than 24 hours later and with no refresh in between, asks the API nothing
\* (one network fetch in total), returns True and leaves the tweets the first
\* call left. Both scripts.
C1_SecondFetchFromCache ==
    (IsFetch /\ step.prev.stored)
        => /\ step.prev.fetched
           /\ step.net = 0
           /\ step.ret
           /\ tweets = step.prev.posts

\* a second call, an hour or more after the call that stored two tweets
C1_Witness ==
    /\ IsFetch
    /\ step.prev.stored
    /\ now > step.prev.time
    /\ Len(tweets) = 2

\* C2: load_cached_tweets returns nothing whenever the snapshot is 24 hours
\* old or older, the age of exactly 24 hours included, whatever else the
\* file holds.
C2_StaleSnapshotIsAbsent ==
    \A u \in Users :
        (/\ files[u].kind = "json"
         /\ files[u].tskey = TimeKey(variant)
         /\ now - fromisoformat(files[u].ts) >= TTL)
            => load_cached_tweets(variant, files[u], now) = Absent

\* C3: a fetch or refresh that ends in a network or API error leaves the
\* snapshot of that username, and the media files it names, as they were.
C3_FailedFetchKeepsSnapshot ==
    [][(FetchStep /\ step'.err \in NetworkErrors
            /\ ValidSnapshot(files[step'.user]))
        => /\ files'[step'.user] = files[step'.user]
           /\ \A p \in SnapshotMedia(files[step'.user]) : media'[p] = media[p]]_vars

\* C4: a fetch that finds a malformed cache file neither raises nor ends
\* the process: load_cached_tweets reads the file as no cache and the fetch
\* goes on to ask the API, as on a cache miss.
C4_MalformedCacheNeverRaises ==
    [][(FetchStep /\ Malformed(files[step'.user]))
        => /\ load_cached_tweets(variant, files[step'.user], now) = Absent
           /\ ~step'.raised
           /\ step'.net >= 1
           /\ pc' # "crashed"]_vars

\* C5: when the write of save_tweets_to_cache fails, a snapshot that was
\* there and fresh before the call is still what load_cached_tweets returns
\* after it.  (A refresh whose clear_cache removed the file is left out: there
\* the write found no snapshot.)
C5_FailedWriteKeepsSnapshot ==
    [][(FetchStep /\ step'.wrote = "failed" /\ step'.clear.ret # "true"
            /\ load_cached_tweets(variant, files[step'.user], now).kind = "hit")
        => load_cached_tweets(variant, files'[step'.user], now)
             = load_cached_tweets(variant, files[step'.user], now)]_vars

\* C6: after a save_tweets_to_cache that wrote its file, load_cached_tweets
\* at any time less than 24 hours later returns the tweets that were saved,
\* in their order and with their fields, and the time of the save.
C6_SaveThenLoad ==
    ((IsFetch \/ IsRefresh) /\ step.wrote = "ok")
        => \A d \in 0..(TTL - 1) :
              load_cached_tweets(variant, files[step.user], now + d)
                  = Hit(tweets, now)

\* two tweets, one with a media file, saved at an hour that is not midnight
C6_Witness ==
    /\ IsFetch \/ IsRefresh
    /\ step.wrote = "ok"
    /\ now % 24 # 0
    /\ Len(tweets) = 2
    /\ variant = "gemini"
    /\ \E i \in 1..Len(tweets) : tweets[i].media # <<>>

C8_ClearReportsRemoval ==
    IsRefresh =>
        /\ step.clear.ret \in {"true", "false"}
        /\ step.clear.ret = "true" <=> (step.clear.existed /\ step.clear.gone)
        /\ ~step.clear.existed => (step.clear.ret = "false" /\ step.clear.same)
        /\ step.clear.ret = "false" => step.clear.same

\* clear_cache called for a username without a cache file
C8_Witness == IsRefresh /\ ~step.clear.existed /\ step.clear.ret = "false"

C10_UserNotFoundLoadsNothing ==
    [][(FetchStep /\ step'.op = "fetch" /\ step'.err = "notfound")
        => /\ ~step'.ret
           /\ step'.net = 1
           /\ step'.wrote = "no"
           /\ files' = files
           /\ username # step'.user
                 => ~(username' = step'.user /\ tweets' # <<>>)]_vars

\* C11: for every batch the API returns and every set of media downloads
\* that fail, fetch_tweets of the multi-modal script raises nothing and
\* returns True, the session holds one tweet per tweet of the batch, in its
\* order, and every tweet's media list has one entry per download that
\* succeeded and none for those that failed.
C11_DownloadFailuresNotFatal ==
    ((IsFetch \/ IsRefresh) /\ variant = "gemini" /\ step.err = "none")
        => /\ step.ret
           /\ ~step.raised
           /\ pc = "chat"
           /\ Ids(tweets) = step.batch
           /\ \A i \in 1..Len(tweets) :
                 Len(tweets[i].media) = step.atts[i].ok

\* two tweets fetched, one with a download that failed and one that succeeded
C11_Witness ==
    /\ IsFetch \/ IsRefresh
    /\ variant = "gemini"
    /\ step.err = "none"
    /\ Len(tweets) = 2
    /\ \E i \in 1..Len(tweets) :
          step.atts[i].ok > 0 /\ step.atts[i].ok < step.atts[i].n

\* a backend answer that is a failure: a network error, a response without
\* text, a body that is not JSON or holds no choice
FailureAnswer(a) ==
    \/ a.kind \in {"raise", "notext"}
    \/ a.kind = "http" /\ a.status = 200
          /\ (~a.body.json \/ a.body.choices = <<>>)

\* C12: when the backend fails (network error, malformed body, missing
\* content), analyse_with_gemini and analyse_with_openrouter raise nothing:
\* an error is shown, no analysis, and the session is at its prompt again.
C12_BackendFailuresCaught ==
    (IsAsk /\ step.calls = 1 /\ FailureAnswer(step.answer))
        => /\ ~step.raised
           /\ step.shown = "error"
           /\ pc = "chat"

\* the chat-completion endpoint answered 200 with a body that is not JSON
C12_Witness ==
    /\ IsAsk
    /\ variant = "openrouter"
    /\ step.calls = 1
    /\ step.answer.kind = "http"
    /\ step.answer.status = 200
    /\ ~step.answer.body.json
    /\ step.shown = "error"

\* C13: for every status other than 200, analyse_with_openrouter shows an
\* error with that status and the body, never an analysis; an analysis is
\* shown only on status 200 and is the content of the first choice.
C13_Non200IsFailure ==
    (IsAsk /\ variant = "openrouter" /\ step.calls = 1)
        => /\ (step.answer.kind = "http" /\ step.answer.status # 200)
                 => /\ step.shown = "error"
                    /\ step.detail = [status |-> step.answer.status,
                                      body |-> step.answer.body]
           /\ step.shown = "analysis"
                 => /\ step.answer.kind = "http"
                    /\ step.answer.status = 200
                    /\ step.answer.body.choices # <<>>
                    /\ step.text = step.answer.body.choices[1]

\* status 429 with a body that holds choices: shown as an error
C13_Witness ==
    /\ IsAsk
    /\ variant = "openrouter"
    /\ step.answer.kind = "http"
    /\ step.answer.status = 429
    /\ step.answer.body.choices # <<>>
    /\ step.detail.status = 429

\* the request a question q would send in this state
Request(q) ==
    IF variant = "gemini" THEN gemini_request(username, tweets, q, media)
    ELSE openrouter_request(username, tweets, q)

\* C14: two questions asked with the same username, the same tweets and the
\* same text send the same request, whatever happened between them and
\* whatever the media directory holds: a step of the session that leaves
\* username and tweets as they were leaves the request of every question as
\* it was.
C14_SameInputsSameRequest ==
    [][(pc = "chat" /\ pc' = "chat" /\ username' = username /\ tweets' = tweets)
        => \A q \in Questions : Request(q)' = Request(q)]_vars

\* the media paths of a tweet list, in the order of the tweets and, within a
\* tweet, of its media list
RECURSIVE AllPaths(_)
AllPaths(ps) == IF ps = <<>> THEN <<>> ELSE Head(ps).media \o AllPaths(Tail(ps))

\* the images at those paths that are there
Loadable(ps, dir) ==
    LET there == SelectSeq(AllPaths(ps), LAMBDA p : dir[p] # NoMedia)
    IN [k \in 1..Len(there) |-> dir[there[k]]]

\* C15: with media paths that point to missing files, analyse_with_gemini
\* still makes exactly one backend call; its image list is the images that
\* load, in tweet order then media order, and its text holds every tweet.
C15_MissingImagesSkipped ==
    (IsAsk /\ variant = "gemini" /\ ~step.empty)
        => /\ step.calls = 1
           /\ step.request.images = Loadable(tweets, media)
           /\ step.request.posts = Ids(tweets)

\* a question over two tweets, the image of one there, of the other missing
C15_Witness ==
    /\ IsAsk
    /\ variant = "gemini"
    /\ step.calls = 1
    /\ \E k \in 1..Len(AllPaths(tweets)) : media[AllPaths(tweets)[k]] = NoMedia
    /\ \E k \in 1..Len(AllPaths(tweets)) : media[AllPaths(tweets)[k]] # NoMedia
    /\ Len(step.request.images) = 1

\* the time a snapshot file records
Stamp(f) == fromisoformat(f.ts)

\* C16: the clock never goes back, no snapshot on disk records a time later
\* than the clock, and every write of a snapshot records the time of the
\* write: so no write records a time earlier than the write before it for
\* the same username, whether or not the file was cleared in between.
C16_FetchedAtNeverGoesBack ==
    [][/\ now' >= now
       /\ \A u \in Users : files[u].kind = "json" => Stamp(files[u]) <= now
       /\ \A u \in Users :
             (files'[u] # files[u] /\ files'[u].kind = "json")
                 => /\ Stamp(files'[u]) = now'
                    /\ files[u].kind = "json"
                          => Stamp(files'[u]) >= Stamp(files[u])]_vars

\* a refresh, hours after the snapshot was written, whose clear_cache left
\* the file and whose fetch wrote the new snapshot over it
C16_Witness ==
    /\ IsRefresh
    /\ step.clear.fresh
    /\ step.clear.ret = "false"
    /\ step.wrote = "ok"
    /\ now > 0

\* what a question q answered a would show in this state
Result(q, a) ==
    LET o == IF variant = "gemini" THEN analyse_with_gemini(St, q, a)
             ELSE analyse_with_openrouter(St, q, a)
    IN [calls |-> o.calls, request |-> o.request, shown |-> o.shown,
        text |-> o.text, detail |-> o.detail]

Answers == IF variant = "gemini" THEN GeminiAnswers ELSE OpenrouterAnswers

\* C17: a question, whatever its outcome, leaves the username, the tweets
\* of the session, every snapshot and every media file as they were, so that
\* the same question with the same answer gives the same result after it.
C17_AskChangesNothing ==
    [][(step = NoStep /\ step'.op = "ask")
        => /\ username' = username
           /\ tweets' = tweets
           /\ files' = files
           /\ media' = media
           /\ \A q \in Questions : \A a \in Answers :
                 Result(q, a)' = Result(q, a)]_vars

\* a question over tweets with a missing image that was answered
C17_Witness ==
    /\ IsAsk
    /\ step.shown = "analysis"
    /\ variant = "gemini"
    /\ \E k \in 1..Len(AllPaths(tweets)) : media[AllPaths(tweets)[k]] = NoMedia

\* C18: after a fetch or refresh that returns False the tweets of the session
\* are what they were before the call; after one that returns True they are
\* the whole batch the call obtained (from the API or from the snapshot),
\* never a part of it.
C18_TweetsReplacedWholesale ==
    [][FetchStep
        => IF step'.ret
           THEN IF step'.err = "cached"
                THEN tweets' = load_cached_tweets(variant, files[step'.user],
                                                  now).tweets
                ELSE Ids(tweets') = step'.batch
           ELSE tweets' = tweets]_vars

\* C19: every request sent to a backend names the username of the session
\* and carries tweets of that user, all the tweets of the session and no
\* others; at the question prompt the session never holds one user's tweets
\* under another username.
C19_RequestsCarryOwnPosts ==
    /\ pc = "chat"
          => /\ username \in Users
             /\ \A i \in 1..Len(tweets) : tweets[i].id \in TweetIds(username)
    /\ (IsAsk /\ step.built)
          => /\ step.request.user = username
             /\ step.request.posts = Ids(tweets)
             /\ \A i \in 1..Len(step.request.posts) :
                   step.request.posts[i] \in TweetIds(step.request.user)

\* a question asked after a refresh that cleared the cache and then failed
C19_Witness ==
    /\ IsAsk
    /\ step.built
    /\ variant = "gemini"
    /\ files[username].kind = "none"
    /\ last = NoCall

\* C20: after a successful fetch of the multi-modal script the entries of a
\* tweet's media list are distinct paths, and where every download of a
\* tweet succeeded the file at its k-th entry holds its k-th attachment.
C20_MediaEntriesKeepTheirFile ==
    ((IsFetch \/ IsRefresh) /\ variant = "gemini" /\ step.err = "none")
        => \A i \in 1..Len(tweets) :
              /\ \A k, l \in 1..Len(tweets[i].media) :
                    k # l => tweets[i].media[k] # tweets[i].media[l]
              /\ step.atts[i].ok = step.atts[i].n
                    => \A k \in 1..Len(tweets[i].media) :
                          media[tweets[i].media[k]] = k

====
